---------------------------- MODULE Spec2Model ----------------------------
(***************************************************************************)
(* EduEvo: the article aggregation pipeline (topic normaliser, the three   *)
(* article adapters, gather_article_sources), the video resolver           *)
(* (search_youtube_links) of src/app.py and src/EduEvo/app.py, and the     *)
(* request handlers of src/app.py with their sessions and tables.          *)
(*                                                                         *)
(* Python strings are modelled as sequences of one-character strings, so   *)
(* that strip(), lower() and the substring test are computed and not       *)
(* assumed.  Python's None is written as the TLA+ string "None" where a    *)
(* field may hold it.                                                      *)
(***************************************************************************)
EXTENDS Naturals, Sequences, FiniteSets

VARIABLES
    pc,              \* position of the running call
    topic,           \* the caller's topic
    max_results,     \* the caller's max_results
    topic_for_apis,  \* gather_article_sources: the normalised topic
    calls,           \* adapter invocations so far, in order: [adapter, query, limit]
    outcome,         \* per invoked adapter: what the provider did ("ok" or a failure)
    source_lists,    \* gather_article_sources: the lists the adapters returned
    combined,        \* gather_article_sources: merged list, as references <<source, index>>
    seen_titles,     \* gather_article_sources: dedup keys seen
    examined,        \* references the merge loop has looked at, in order
    pdfs,            \* gather_article_sources: the pdf subset, as references
    api_key,         \* YOUTUBE_API_KEY is configured
    variant,         \* which copy of search_youtube_links runs: "app" or "EduEvo"
    vids,            \* search_youtube_links: video ids collected, in order
    html,            \* search_youtube_links: the fetched results page
    result,          \* search_youtube_links: the returned list
    db_users,        \* users table: the e-mail of each row, the row id being the index
    db_profiles,     \* profiles table: user id -> plan of the user's row
    db_quiz_history, \* quiz_history table: number of rows
    session,         \* per browser session: auth_user, user_details, basic_quiz_uses
    request,         \* the request handled last: [endpoint, sid, topic]
    response,        \* its response
    outbound,        \* the outbound calls made while handling it, in order
    basic_generated  \* per session: quizzes generated while the stored plan was basic

vars == <<pc, topic, max_results, topic_for_apis, calls, outcome, source_lists,
          combined, seen_titles, examined, pdfs, api_key, variant, vids, html,
          result, db_users, db_profiles, db_quiz_history, session, request,
          response, outbound, basic_generated>>

gatherVars == <<topic_for_apis, calls, outcome, source_lists, combined,
                seen_titles, examined, pdfs>>
videoVars == <<api_key, variant, vids, html, result>>
dbVars == <<db_users, db_profiles, db_quiz_history>>
webVars == <<dbVars, session, request, response, outbound, basic_generated>>

-----------------------------------------------------------------------------
(* Python str helpers                                                      *)

UpperChars == <<"A","B","C","D","E","F","G","H","I","J","K","L","M",
                "N","O","P","Q","R","S","T","U","V","W","X","Y","Z">>
LowerChars == <<"a","b","c","d","e","f","g","h","i","j","k","l","m",
                "n","o","p","q","r","s","t","u","v","w","x","y","z">>

LowerChar(c) ==
    IF \E i \in DOMAIN UpperChars : UpperChars[i] = c
    THEN LowerChars[CHOOSE i \in DOMAIN UpperChars : UpperChars[i] = c]
    ELSE c

\* str.lower()
Lower(s) == [i \in DOMAIN s |-> LowerChar(s[i])]

IsSpace(c) == c \in {" ", "\t", "\n"}

RECURSIVE LStrip(_)
LStrip(s) == IF s = <<>> THEN s
             ELSE IF IsSpace(Head(s)) THEN LStrip(Tail(s)) ELSE s

RECURSIVE RStrip(_)
RStrip(s) == IF s = <<>> THEN s
             ELSE IF IsSpace(s[Len(s)]) THEN RStrip(SubSeq(s, 1, Len(s) - 1)) ELSE s

\* str.strip()
Strip(s) == RStrip(LStrip(s))

\* sub in s
Contains(sub, s) ==
    \E i \in 0 .. Len(s) : i + Len(sub) <= Len(s) /\ SubSeq(s, i + 1, i + Len(sub)) = sub

\* s[:n] for n >= 0
Take(s, n) == SubSeq(s, 1, IF n < Len(s) THEN n ELSE Len(s))

-----------------------------------------------------------------------------
(* _normalize_topic_for_articles                                           *)

lang_keywords == {
    <<"c","+","+">>,
    <<"c","p","p">>,
    <<"c"," ","l","a","n","g","u","a","g","e">>,
    <<"c"," ","p","r","o","g","r","a","m","m","i","n","g">>,
    <<"p","y","t","h","o","n">>,
    <<"j","a","v","a">>,
    <<"j","a","v","a","s","c","r","i","p","t">>,
    <<"t","y","p","e","s","c","r","i","p","t">>,
    <<"g","o","l","a","n","g">>,
    <<"g","o"," ","l","a","n","g","u","a","g","e">>,
    <<"r","u","s","t">>,
    <<"k","o","t","l","i","n">>,
    <<"s","w","i","f","t">>,
    <<"p","h","p">>,
    <<"r","u","b","y">>,
    <<"c","#">>,
    <<".","n","e","t">> }

WordProgramming == <<"p","r","o","g","r","a","m","m","i","n","g">>
WordLanguage == <<"l","a","n","g","u","a","g","e">>
LangSuffix == <<" ">> \o WordProgramming \o <<" ">> \o WordLanguage

\* The keyword test compares for equality instead of looking for a substring.
NormalizeKeywordEquals(t) ==
    LET s == Strip(t)
        low == Lower(s)
    IN  IF low = <<>> THEN s
        ELSE IF low \in lang_keywords
                /\ ~Contains(WordProgramming, low) /\ ~Contains(WordLanguage, low)
             THEN s \o LangSuffix
             ELSE s

\* The suffix is appended without looking for "programming" or "language".
NormalizeNoGuard(t) ==
    LET s == Strip(t)
        low == Lower(s)
    IN  IF low = <<>> THEN s
        ELSE IF \E k \in lang_keywords : Contains(k, low)
             THEN s \o LangSuffix
             ELSE s

_normalize_topic_for_articles(t) ==
    LET s == Strip(t)
        low == Lower(s)
    IN  IF low = <<>> THEN s
        ELSE IF (\E k \in lang_keywords : Contains(k, low))
                /\ ~Contains(WordProgramming, low) /\ ~Contains(WordLanguage, low)
             THEN s \o LangSuffix
             ELSE s

-----------------------------------------------------------------------------
(* Bounds of the model                                                     *)

\* max_results ranges over 1 .. MaxN
MaxN == 2
\* the three providers' answers of one call hold at most MaxRecords records
\* together
MaxRecords == 3

SeqsUpTo(S, n) == UNION {[1 .. k -> S] : k \in 0 .. n}

-----------------------------------------------------------------------------
(* Provider answers.  A title is [kind, s]: kind "none" is an absent or    *)
(* null title, "str" a JSON/XML string with characters s, "num" a JSON     *)
(* value that is not a string (a number).                                  *)

NoTitle == [kind |-> "none", s |-> <<>>]
NumTitle == [kind |-> "num", s |-> <<>>]
StrTitle(chars) == [kind |-> "str", s |-> chars]

PdfUrl == "http://x/y.pdf"

\* The records a provider may answer with, as <<title, has a pdf link>>: two
\* spellings of one title, a second title, a whitespace-only, an empty, an
\* absent and a non-string title.
JsonSamples == {<<StrTitle(<<"a">>), FALSE>>, <<StrTitle(<<"A", " ">>), TRUE>>,
                <<StrTitle(<<"b">>), TRUE>>, <<StrTitle(<<" ">>), TRUE>>,
                <<StrTitle(<<>>), FALSE>>, <<NoTitle, FALSE>>, <<NumTitle, FALSE>>}
XmlSamples == {x \in JsonSamples : x[1] # NumTitle}

\* shape "bad": a record the adapter's field access raises on (not an object,
\* a field of the wrong type); noPdf is what the adapter stores for a record
\* without a pdf link
ProviderRecords(samples, noPdf) ==
    {[shape |-> "ok", title |-> x[1], pdf |-> IF x[2] THEN PdfUrl ELSE noPdf,
      authors |-> <<>>] : x \in samples}
        \cup {[shape |-> "bad", title |-> NoTitle, pdf |-> noPdf, authors |-> <<>>]}

Faults == {"network", "status", "parse", "schema"}

ProviderAnswers(samples, noPdf, maxLen) ==
    [fault : Faults, items : {<<>>}]
        \cup [fault : {"none"}, items : SeqsUpTo(ProviderRecords(samples, noPdf), maxLen)]

SemanticScholarAnswers(maxLen) == ProviderAnswers(JsonSamples, "None", maxLen)
CrossrefAnswers(maxLen) == ProviderAnswers(JsonSamples, "", maxLen)
ArxivAnswers(maxLen) == ProviderAnswers(XmlSamples, "", maxLen)

\* Python truthiness of a title (`if not title: continue`)
TitleTruthy(t) == t.kind = "num" \/ (t.kind = "str" /\ t.s # <<>>)

\* Python truthiness of a pdf field
PdfTruthy(p) == p \notin {"None", ""}

\* what the adapter's try block did with the answer: "ok", or the failure
AdapterOutcome(ans) ==
    IF ans.fault # "none" THEN ans.fault
    ELSE IF \E i \in DOMAIN ans.items : ans.items[i].shape = "bad" THEN "record"
    ELSE "ok"

\* authors[:4]
AuthorLimit == 4

\* an author entry is [name], name 0 standing for an absent or empty name
Named(authors) == SelectSeq(authors, LAMBDA a : a.name # 0)

\* the authors field the adapter stores: Semantic Scholar (line 75) and
\* Crossref (109-115, 122) keep the named authors, arXiv (150, 160) every
\* <name> element; Crossref and arXiv cut the list at AuthorLimit
AuthorsKept(source, authors) ==
    IF source = "Semantic Scholar" THEN Named(authors)
    ELSE IF source = "Crossref" THEN Take(Named(authors), AuthorLimit)
    ELSE Take(authors, AuthorLimit)

RECURSIVE ParseRecords(_, _, _)
ParseRecords(items, source, strip) ==
    IF items = <<>> THEN <<>>
    ELSE LET r == Head(items)
             t == IF strip /\ r.title.kind = "str"
                  THEN StrTitle(Strip(r.title.s)) ELSE r.title
             rest == ParseRecords(Tail(items), source, strip)
         IN  IF ~TitleTruthy(t) THEN rest
             ELSE <<[title |-> t, pdf |-> r.pdf, source |-> source,
                     authors |-> AuthorsKept(source, r.authors)]>> \o rest

\* try: ... return results / except Exception: return []
Adapter(ans, source, strip) ==
    IF AdapterOutcome(ans) # "ok" THEN <<>>
    ELSE ParseRecords(ans.items, source, strip)

search_semantic_scholar(ans) == Adapter(ans, "Semantic Scholar", FALSE)
search_crossref(ans) == Adapter(ans, "Crossref", FALSE)
search_arxiv(ans) == Adapter(ans, "arXiv", TRUE)

-----------------------------------------------------------------------------
(* gather_article_sources                                                  *)

\* max_results // 2 or 5
HalfOrFive(n) == IF n \div 2 = 0 THEN 5 ELSE n \div 2
\* max(4, max_results // 3)
ThirdAtLeastFour(n) == IF n \div 3 > 4 THEN n \div 3 ELSE 4

ItemAt(lists, ref) == lists[ref[1]][ref[2]]

\* `>` written for `>=`
ReachedCapOffByOne(comb, n) == Len(comb) > n

\* len(combined) >= max_results
ReachedCap(comb, n) == Len(comb) >= n

\* The title is compared as returned, without strip() and lower().
DedupKeyRaw(title) == title

\* key = title.lower(), title the stripped title
DedupKey(title) == Lower(title)

\* Items without a usable title are appended as well.
SkipsItemNever(title) == FALSE

\* if not title: continue
SkipsItem(title) == title = <<>>

\* The two nested loops of lines 208-221, from item i of list s on.  st is
\* [combined, seen, examined, raised].
RECURSIVE Walk(_, _, _, _, _)
Walk(lists, n, s, i, st) ==
    IF s > Len(lists) THEN st
    ELSE IF i > Len(lists[s])
    THEN IF ReachedCap(st.combined, n) THEN st ELSE Walk(lists, n, s + 1, 1, st)
    ELSE LET item == lists[s][i]
             seenItem == [st EXCEPT !.examined = Append(@, <<s, i>>)]
         IN  IF item.title.kind = "num"
             THEN [seenItem EXCEPT !.raised = TRUE]   \* int has no strip()
             ELSE LET title == Strip(item.title.s)
                      key == DedupKey(title)
                  IN  IF SkipsItem(title) THEN Walk(lists, n, s, i + 1, seenItem)
                      ELSE IF key \in st.seen THEN Walk(lists, n, s, i + 1, seenItem)
                      ELSE LET added == [seenItem EXCEPT
                                            !.combined = Append(@, <<s, i>>),
                                            !.seen = @ \cup {key}]
                           IN  IF ReachedCap(added.combined, n)
                               THEN added    \* inner break, then the outer one
                               ELSE Walk(lists, n, s, i + 1, added)

\* An entry counts as having a pdf when any record with its title has one.
PdfSubsetEnriched(lists, comb) ==
    LET keyOf(ref) == Lower(Strip(ItemAt(lists, ref).title.s))
        refs == {<<s, i>> : s \in DOMAIN lists, i \in 1 .. MaxRecords}
        twins(ref) == {r \in refs : r[2] <= Len(lists[r[1]]) /\ keyOf(r) = keyOf(ref)}
    IN  SelectSeq(comb, LAMBDA ref : \E r \in twins(ref) : PdfTruthy(ItemAt(lists, r).pdf))

\* The pdf field is tested against None only, so "" counts as a pdf.
PdfSubsetNotNone(lists, comb) ==
    SelectSeq(comb, LAMBDA ref : ItemAt(lists, ref).pdf # "None")

\* pdfs = [a for a in combined if a.get("pdf")]
PdfSubset(lists, comb) ==
    SelectSeq(comb, LAMBDA ref : PdfTruthy(ItemAt(lists, ref).pdf))

GatherTopics == {<<"p","y","t","h","o","n">>}

\* no results page fetched
NoPage == [script |-> "absent", contents |-> <<>>, matches |-> <<>>]

InitIdleVideo ==
    /\ api_key = FALSE
    /\ variant = "app"
    /\ vids = <<>>
    /\ html = NoPage
    /\ result = <<>>

\* no request handled
NoRequest == [endpoint |-> "None", sid |-> "None", topic |-> <<>>]
NoResponse == [status |-> 0]

InitIdleWeb ==
    /\ db_users = <<>>
    /\ db_profiles = <<>>
    /\ db_quiz_history = 0
    /\ session = <<>>
    /\ request = NoRequest
    /\ response = NoResponse
    /\ outbound = <<>>
    /\ basic_generated = <<>>

Init ==
    /\ pc = "start"
    /\ topic \in GatherTopics
    /\ max_results \in 1 .. MaxN
    /\ topic_for_apis = <<>>
    /\ calls = <<>>
    /\ outcome = <<>>
    /\ source_lists = <<>>
    /\ combined = <<>>
    /\ seen_titles = {}
    /\ examined = <<>>
    /\ pdfs = <<>>
    /\ InitIdleVideo
    /\ InitIdleWeb

\* line 200
GatherNormalize ==
    /\ pc = "start"
    /\ topic_for_apis' = _normalize_topic_for_articles(topic)
    /\ pc' = "call_semantic_scholar"
    /\ UNCHANGED <<topic, max_results, calls, outcome, source_lists, combined,
                   seen_titles, examined, pdfs, videoVars, webVars>>

\* records the providers may still answer with in this call
RECURSIVE RecordsLeft(_)
RecordsLeft(lists) ==
    IF lists = <<>> THEN MaxRecords
    ELSE LET left == RecordsLeft(Tail(lists))
         IN  IF Len(Head(lists)) < left THEN left - Len(Head(lists)) ELSE 0

CallAdapter(name, limit, list, ans, next) ==
    /\ calls' = Append(calls, [adapter |-> name, query |-> topic_for_apis, limit |-> limit])
    /\ outcome' = Append(outcome, AdapterOutcome(ans))
    /\ source_lists' = Append(source_lists, list)
    /\ pc' = next
    /\ UNCHANGED <<topic, max_results, topic_for_apis, combined, seen_titles,
                   examined, pdfs, videoVars, webVars>>

\* A failed first attempt is followed by a second one.
CallSemanticScholarRetried ==
    /\ pc = "call_semantic_scholar"
    /\ \E ans \in SemanticScholarAnswers(RecordsLeft(source_lists)) :
          CallAdapter("Semantic Scholar", HalfOrFive(max_results),
                      search_semantic_scholar(ans), ans,
                      IF AdapterOutcome(ans) # "ok" /\ calls = <<>>
                      THEN "call_semantic_scholar" ELSE "call_crossref")

\* line 204
CallSemanticScholar ==
    /\ pc = "call_semantic_scholar"
    /\ \E ans \in SemanticScholarAnswers(RecordsLeft(source_lists)) :
          CallAdapter("Semantic Scholar", HalfOrFive(max_results),
                      search_semantic_scholar(ans), ans, "call_crossref")

\* line 205
CallCrossref ==
    /\ pc = "call_crossref"
    /\ \E ans \in CrossrefAnswers(RecordsLeft(source_lists)) :
          CallAdapter("Crossref", HalfOrFive(max_results),
                      search_crossref(ans), ans, "call_arxiv")

\* line 206
CallArxiv ==
    /\ pc = "call_arxiv"
    /\ \E ans \in ArxivAnswers(RecordsLeft(source_lists)) :
          CallAdapter("arXiv", ThirdAtLeastFour(max_results),
                      search_arxiv(ans), ans, "merge")

\* lines 208-223
Merge ==
    /\ pc = "merge"
    /\ LET st == Walk(source_lists, max_results, 1, 1,
                      [combined |-> <<>>, seen |-> {}, examined |-> <<>>, raised |-> FALSE])
       IN  /\ combined' = st.combined
           /\ seen_titles' = st.seen
           /\ examined' = st.examined
           /\ pdfs' = IF st.raised THEN <<>> ELSE PdfSubset(source_lists, st.combined)
           /\ pc' = IF st.raised THEN "raised" ELSE "done"
    /\ UNCHANGED <<topic, max_results, topic_for_apis, calls, outcome, source_lists,
                   videoVars, webVars>>

Next == GatherNormalize \/ CallSemanticScholar \/ CallCrossref \/ CallArxiv \/ Merge

Spec == Init /\ [][Next]_vars

-----------------------------------------------------------------------------
(* Properties of gather_article_sources                                    *)

\* every record the adapters returned, as references
AllRefs == {ref \in (DOMAIN source_lists) \X (1 .. MaxRecords) :
                ref[2] <= Len(source_lists[ref[1]])}

\* walk order: adapter priority first, then the adapter's own order
Before(r1, r2) == r1[1] < r2[1] \/ (r1[1] = r2[1] /\ r1[2] < r2[2])

RefTitle(ref) == ItemAt(source_lists, ref).title
RefPdf(ref) == ItemAt(source_lists, ref).pdf

\* lower-cased, trimmed title of a string-titled record
RefKey(ref) == Lower(Strip(RefTitle(ref).s))

HasUsableTitle(ref) == RefTitle(ref).kind = "str" /\ Strip(RefTitle(ref).s) # <<>>

InCombined(ref) == \E j \in DOMAIN combined : combined[j] = ref
InPdfs(ref) == \E j \in DOMAIN pdfs : pdfs[j] = ref

\* C1: when gather_article_sources returns, the merged list and pdfs each hold
\* at most max_results entries, and every entry of pdfs is (the very record
\* of) an entry of the merged list.
C1_BoundedAndPdfsWithin ==
    pc = "done" =>
        /\ Len(combined) <= max_results
        /\ Len(pdfs) <= max_results
        /\ \A i \in DOMAIN pdfs : InCombined(pdfs[i])

\* the adapters returned more usable, distinct records than max_results, the
\* merged list is full and all of it has a pdf
C1_Witness ==
    /\ pc = "done"
    /\ Len(combined) = max_results
    /\ Len(pdfs) = max_results
    /\ Cardinality({RefKey(r) : r \in {x \in AllRefs : HasUsableTitle(x)}}) > max_results

\* C2: the merged list never holds two entries with the same lower-cased,
\* trimmed title, and the entry kept for a title is the first record with
\* that title in walk order (Semantic Scholar, Crossref, arXiv; each list in
\* its own order).
C2_DedupFirstSeenWins ==
    pc = "done" =>
        /\ \A j, k \in DOMAIN combined :
              j # k => RefKey(combined[j]) # RefKey(combined[k])
        /\ \A j \in DOMAIN combined : \A r \in AllRefs :
              (Before(r, combined[j]) /\ HasUsableTitle(r))
                  => RefKey(r) # RefKey(combined[j])

\* two adapters returned differently spelled titles with the same key; the
\* earlier one is merged and the later one was examined and dropped
C2_Witness ==
    /\ pc = "done"
    /\ \E r1, r2 \in AllRefs :
          /\ r1[1] < r2[1]
          /\ HasUsableTitle(r1) /\ HasUsableTitle(r2)
          /\ RefTitle(r1) # RefTitle(r2)
          /\ RefKey(r1) = RefKey(r2)
          /\ InCombined(r1) /\ ~InCombined(r2)
          /\ \E e \in DOMAIN examined : examined[e] = r2

\* C3: on a title collision the merged entry is the earlier adapter's record
\* and nothing of the later duplicate is used: the later record is not merged,
\* and the entry is in pdfs exactly when the earlier record itself has a pdf.
\* In particular, one record without a pdf from the first adapter and one
\* with the same title and a pdf from the second give one merged entry (the
\* first adapter's) and no pdfs.
C3_NoMergeAcrossSources ==
    pc = "done" =>
        /\ \A r1, r2 \in AllRefs :
              (/\ r1[1] < r2[1]
               /\ HasUsableTitle(r1) /\ HasUsableTitle(r2)
               /\ RefKey(r1) = RefKey(r2)
               /\ InCombined(r1))
                  => /\ ~InCombined(r2)
                     /\ ~InPdfs(r2)
                     /\ InPdfs(r1) <=> PdfTruthy(RefPdf(r1))
        /\ (/\ Len(source_lists[1]) = 1 /\ Len(source_lists[2]) = 1
            /\ source_lists[3] = <<>>
            /\ HasUsableTitle(<<1, 1>>) /\ HasUsableTitle(<<2, 1>>)
            /\ RefKey(<<1, 1>>) = RefKey(<<2, 1>>)
            /\ ~PdfTruthy(RefPdf(<<1, 1>>)))
               => combined = << <<1, 1>> >> /\ pdfs = <<>>

\* the scenario: "a" without a pdf from Semantic Scholar, "A " with a pdf from
\* Crossref, nothing from arXiv
C3_Witness ==
    /\ pc = "done"
    /\ Len(source_lists[1]) = 1 /\ Len(source_lists[2]) = 1 /\ source_lists[3] = <<>>
    /\ RefTitle(<<1, 1>>) = StrTitle(<<"a">>) /\ RefPdf(<<1, 1>>) = "None"
    /\ RefTitle(<<2, 1>>) = StrTitle(<<"A", " ">>) /\ RefPdf(<<2, 1>>) = PdfUrl
    /\ combined = << <<1, 1>> >>
    /\ pdfs = <<>>

\* C4: no entry of the merged list, and none of pdfs, has a missing, empty or
\* whitespace-only title.
C4_NoEmptyTitles ==
    pc = "done" =>
        /\ \A j \in DOMAIN combined : HasUsableTitle(combined[j])
        /\ \A j \in DOMAIN pdfs : HasUsableTitle(pdfs[j])

\* an adapter returned a record with a whitespace-only title and a pdf; the
\* merge looked at it and went on to merge a later record
C4_Witness ==
    /\ pc = "done"
    /\ \E e \in DOMAIN examined :
          /\ RefTitle(examined[e]) = StrTitle(<<" ">>)
          /\ PdfTruthy(RefPdf(examined[e]))
          /\ \E j \in DOMAIN combined : Before(examined[e], combined[j])

\* C5: no failure escapes the adapter boundary: an adapter whose call failed
\* (network, HTTP status, parse, schema mismatch, also after some records
\* were parsed) returned an empty list; when all three failed the call
\* returns ([], []); and gather_article_sources never raises.
C5_NoFailureEscapes ==
    /\ \A s \in DOMAIN outcome : outcome[s] # "ok" => source_lists[s] = <<>>
    /\ (pc = "done" /\ \A s \in DOMAIN outcome : outcome[s] # "ok")
          => combined = <<>> /\ pdfs = <<>>
    /\ pc # "raised"

\* C10 as stated: once the merged list is full, no item after the one that
\* filled it is examined and no adapter after the one that filled it is
\* invoked in this call.
C10_NoLaterAdapterInvoked ==
    (pc = "done" /\ Len(combined) >= max_results) =>
        /\ examined[Len(examined)] = combined[max_results]
        /\ \A c \in DOMAIN calls : c <= combined[max_results][1]

\* C10, amended: all three adapters are invoked before the merge starts;
\* once the merged list is full no remaining item is examined (the items are
\* examined in walk order, and the last one examined is the one that filled
\* the list), so no remaining adapter's list is walked.
C10_EarlyStopOfTheWalk ==
    /\ pc \in {"merge", "done", "raised"} => Len(calls) = 3
    /\ pc = "done" =>
          /\ \A e \in DOMAIN examined : \A r \in AllRefs :
                Before(r, examined[e]) => \E d \in 1 .. e - 1 : examined[d] = r
          /\ Len(combined) >= max_results
                => examined[Len(examined)] = combined[max_results]

\* the list was filled from Semantic Scholar's answer while a later record of
\* it and Crossref's records stay unexamined
C10_Witness ==
    /\ pc = "done"
    /\ Len(combined) >= max_results
    /\ combined[max_results][1] = 1
    /\ \E r \in AllRefs : r[1] = 1 /\ Before(combined[max_results], r)
    /\ \E r \in AllRefs : r[1] = 2 /\ HasUsableTitle(r)
    /\ \A e \in DOMAIN examined : examined[e][1] = 1

\* C11: the sub-limits handed to the adapters are max_results/2 (Semantic
\* Scholar), max_results/2 (Crossref) and max_results/3 (arXiv) in integer
\* division, each floored so that no adapter is asked for fewer than 4.
C11_SubLimitsFlooredAtFour ==
    \A c \in DOMAIN calls :
        LET q == IF calls[c].adapter = "arXiv"
                 THEN max_results \div 3 ELSE max_results \div 2
        IN  /\ calls[c].limit >= 4
            /\ q >= 4 => calls[c].limit = q

\* C12: pdfs is the order-preserving subsequence of the merged list made of
\* the entries whose pdf field is neither None nor "", and the merged list is
\* in walk order (adapter priority, then the adapter's own order).
C12_PdfsOrderedSubsequence ==
    pc = "done" =>
        /\ \A j \in DOMAIN combined :
              InPdfs(combined[j]) <=> RefPdf(combined[j]) \notin {"None", ""}
        /\ \A j \in DOMAIN pdfs : InCombined(pdfs[j])
        /\ \A j, k \in DOMAIN pdfs : j < k => Before(pdfs[j], pdfs[k])
        /\ \A j, k \in DOMAIN combined : j < k => Before(combined[j], combined[k])

\* two adapters each contributed an entry; the first has pdf "" and is left
\* out of pdfs, the second has a pdf
C12_Witness ==
    /\ pc = "done"
    /\ Len(combined) = 2
    /\ combined[1][1] = 2 /\ combined[2][1] = 3
    /\ RefPdf(combined[1]) = ""
    /\ pdfs = <<combined[2]>>

AdapterOrder == <<"Semantic Scholar", "Crossref", "arXiv">>

\* C13: the adapters are invoked one after another in the order Semantic
\* Scholar, Crossref, arXiv, each at most once; a failed adapter is not
\* retried, and the later adapters are still invoked and their records merged.
C13_SequentialNoRetry ==
    /\ Len(calls) <= 3
    /\ Len(outcome) = Len(calls) /\ Len(source_lists) = Len(calls)
    /\ \A c \in DOMAIN calls : calls[c].adapter = AdapterOrder[c]
    /\ pc \in {"merge", "done", "raised"} => Len(calls) = 3
    /\ pc = "done" /\ Len(combined) < max_results
          => \A r \in AllRefs : HasUsableTitle(r)
                => \E j \in DOMAIN combined : RefKey(combined[j]) = RefKey(r)

\* Semantic Scholar failed, Crossref and arXiv were invoked after it and one
\* record of each is in the merged list
C13_Witness ==
    /\ pc = "done"
    /\ outcome[1] # "ok"
    /\ \E j \in DOMAIN combined : combined[j][1] = 2
    /\ \E j \in DOMAIN combined : combined[j][1] = 3

-----------------------------------------------------------------------------
(* search_youtube_links, in src/app.py ("app") and src/EduEvo/app.py       *)
(* ("EduEvo").  vids holds [id, tier] for each collected video.            *)

min_videos == 5

\* the official API answers with at most MaxApiItems items
MaxApiItems == 3
\* the embedded JSON of the results page lists at most MaxPageItems items
MaxPageItems == 2
\* the regex finds at most MaxMatches ids in the page
MaxMatches == 2

VideoIds == {"idA", "idB"}

\* an API item: shape "bad" is one the field access raises on; id "None" is
\* an item without a videoId
ApiItems == [shape : {"ok"}, id : VideoIds \cup {"None"}]
                \cup {[shape |-> "bad", id |-> "None"]}
ApiAnswers == [fault : {TRUE}, items : {<<>>}]
                  \cup [fault : {FALSE}, items : SeqsUpTo(ApiItems, MaxApiItems)]

\* an entry of the page's embedded JSON: a videoRenderer (shape "bad": its
\* title or owner runs raise) or another renderer
PageItems == [kind : {"video"}, shape : {"ok"}, id : VideoIds \cup {"None"}]
                 \cup {[kind |-> "video", shape |-> "bad", id |-> "idA"],
                       [kind |-> "other", shape |-> "ok", id |-> "None"]}

\* script: "absent" (no ytInitialData script), "broken" (the blob does not
\* parse or lacks the expected path), "ok"
Pages == [script : {"absent", "broken"}, contents : {<<>>},
          matches : SeqsUpTo(VideoIds, MaxMatches)]
             \cup [script : {"ok"}, contents : SeqsUpTo(PageItems, MaxPageItems),
                   matches : SeqsUpTo(VideoIds, MaxMatches)]

Video(id, tier) == [id |-> id, tier |-> tier]

\* for it in j.get("items", [])[:max_results]: ... if vid: vids.append(...)
\* gives [vids, raised]
RECURSIVE ApiLoop(_, _)
ApiLoop(items, vs) ==
    IF items = <<>> THEN [vids |-> vs, raised |-> FALSE]
    ELSE LET it == Head(items)
         IN  IF it.shape = "bad" THEN [vids |-> vs, raised |-> TRUE]
             ELSE IF it.id = "None" THEN ApiLoop(Tail(items), vs)
             ELSE ApiLoop(Tail(items), Append(vs, Video(it.id, "api")))

\* app: `if vids: return vids[:max_results]`; EduEvo: `return vids`
ApiTierReturns(v, vs) ==
    IF v = "app" THEN vs # <<>> ELSE TRUE

\* The cap on the collected videos is not looked at.
UnderCapAlways(vs, n) == TRUE

\* len(vids) < max_results
UnderCap(vs, n) == Len(vs) < n

\* for item in contents: ...   gives the videos once the loop ended or raised
RECURSIVE ScrapeJsonLoop(_, _, _, _)
ScrapeJsonLoop(v, items, vs, n) ==
    IF items = <<>> THEN vs
    ELSE LET item == Head(items)
             entered == IF v = "app"
                        THEN item.kind = "video" /\ UnderCap(vs, n)
                        ELSE item.kind = "video"
             appends == IF v = "app"
                        THEN item.id # "None"
                        ELSE item.id # "None" /\ UnderCap(vs, n)
         IN  IF ~entered THEN ScrapeJsonLoop(v, Tail(items), vs, n)
             ELSE IF item.shape = "bad" THEN vs
             ELSE IF appends
                  THEN ScrapeJsonLoop(v, Tail(items), Append(vs, Video(item.id, "json")), n)
                  ELSE ScrapeJsonLoop(v, Tail(items), vs, n)

\* for match in re.findall(...): ...
RECURSIVE RegexLoop(_, _, _, _)
RegexLoop(matches, seen_ids, vs, n) ==
    IF matches = <<>> THEN vs
    ELSE LET match == Head(matches)
         IN  IF match \in seen_ids THEN RegexLoop(Tail(matches), seen_ids, vs, n)
             ELSE LET added == Append(vs, Video(match, "regex"))
                  IN  IF Len(added) >= n THEN added
                      ELSE RegexLoop(Tail(matches), seen_ids \cup {match}, added, n)

\* app: `return vids[:max_results]`; EduEvo: `return vids`
Returned(v, vs, n) == IF v = "app" THEN Take(vs, n) ELSE vs

VideoTopics == {<<"g","o">>}

InitVideo ==
    /\ pc = "v_start"
    /\ topic \in VideoTopics
    /\ max_results \in (1 .. MaxN) \cup {min_videos}
    /\ api_key \in BOOLEAN
    /\ variant \in {"app", "EduEvo"}
    /\ vids = <<>>
    /\ html = NoPage
    /\ result = <<>>
    /\ InitIdleWeb
    /\ topic_for_apis = <<>>
    /\ calls = <<>>
    /\ outcome = <<>>
    /\ source_lists = <<>>
    /\ combined = <<>>
    /\ seen_titles = {}
    /\ examined = <<>>
    /\ pdfs = <<>>

\* app 344-366, EduEvo 74-95
ApiTier ==
    /\ pc = "v_start"
    /\ api_key
    /\ \E ans \in ApiAnswers :
          LET r == IF ans.fault THEN [vids |-> <<>>, raised |-> TRUE]
                   ELSE ApiLoop(Take(ans.items, max_results), <<>>)
          IN  /\ vids' = r.vids
              /\ IF ~r.raised /\ ApiTierReturns(variant, r.vids)
                 THEN /\ result' = Returned(variant, r.vids, max_results)
                      /\ pc' = "returned"
                 ELSE /\ result' = result
                      /\ pc' = "v_fetch"
    /\ UNCHANGED <<topic, max_results, api_key, variant, html, gatherVars, webVars>>

\* `if YOUTUBE_API_KEY:` is false
NoApiKey ==
    /\ pc = "v_start"
    /\ ~api_key
    /\ pc' = "v_fetch"
    /\ UNCHANGED <<topic, max_results, vids, result, api_key, variant, html, gatherVars, webVars>>

\* app 369-384, EduEvo 98-109: the request; a failure ends in the outer except
ScrapeFetch ==
    /\ pc = "v_fetch"
    /\ \/ /\ \E page \in Pages : html' = page
          /\ pc' = "v_json"
          /\ result' = result
       \/ /\ html' = html
          /\ result' = Returned(variant, vids, max_results)
          /\ pc' = "returned"
    /\ UNCHANGED <<topic, max_results, vids, api_key, variant, gatherVars, webVars>>

\* app 386-409, EduEvo 111-130
ScrapeJson ==
    /\ pc = "v_json"
    /\ vids' = IF html.script = "ok"
               THEN ScrapeJsonLoop(variant, html.contents, vids, max_results)
               ELSE vids
    /\ pc' = IF variant = "app" THEN "v_regex" ELSE "v_return"
    /\ UNCHANGED <<topic, max_results, result, api_key, variant, html, gatherVars, webVars>>

\* The regex scan is left out once the embedded JSON failed to parse.
RegexTierSkippedAfterError ==
    /\ pc = "v_regex"
    /\ vids' = IF /\ UnderCap(vids, max_results)
                  /\ html.script # "broken"
                  /\ \A i \in DOMAIN html.contents : html.contents[i].shape # "bad"
               THEN RegexLoop(html.matches, {vids[i].id : i \in DOMAIN vids},
                              vids, max_results)
               ELSE vids
    /\ pc' = "v_return"
    /\ UNCHANGED <<topic, max_results, result, api_key, variant, html, gatherVars, webVars>>

\* app 411-428
RegexTier ==
    /\ pc = "v_regex"
    /\ vids' = IF UnderCap(vids, max_results)
               THEN RegexLoop(html.matches, {vids[i].id : i \in DOMAIN vids},
                              vids, max_results)
               ELSE vids
    /\ pc' = "v_return"
    /\ UNCHANGED <<topic, max_results, result, api_key, variant, html, gatherVars, webVars>>

\* app 434, EduEvo 134
Return ==
    /\ pc = "v_return"
    /\ result' = Returned(variant, vids, max_results)
    /\ pc' = "returned"
    /\ UNCHANGED <<topic, max_results, vids, api_key, variant, html, gatherVars, webVars>>

NextVideo == ApiTier \/ NoApiKey \/ ScrapeFetch \/ ScrapeJson \/ RegexTier \/ Return

SpecVideo == InitVideo /\ [][NextVideo]_vars

\* C6: whenever the real-source tiers (API, page scrape, regex scan) yield
\* fewer than min_videos videos, a failed request or no result included,
\* search_youtube_links returns exactly min_videos results.  (Stated for
\* max_results >= min_videos, where the floor does not conflict with the cap.)
C6_FloorOfMinVideos ==
    (pc = "returned" /\ max_results >= min_videos /\ Len(vids) < min_videos)
        => Len(result) = min_videos

\* C7: the list search_youtube_links returns never holds more than
\* max_results entries, on every path through the tiers.
C7_CapOfMaxResults ==
    pc = "returned" => Len(result) <= max_results

\* the page's JSON listed more videos than max_results, the API tier having
\* failed or being off, and exactly max_results are returned
C7_Witness ==
    /\ pc = "returned"
    /\ Len(result) = max_results
    /\ Cardinality({i \in DOMAIN html.contents :
                       /\ html.contents[i].kind = "video"
                       /\ html.contents[i].shape = "ok"
                       /\ html.contents[i].id # "None"}) > max_results

\* C14: the official API tier is attempted only when a key is configured,
\* and it ends the resolution only when it produced at least min_videos
\* videos; with fewer the resolution goes on to the scrape tier.  (Stated for
\* max_results >= min_videos, where the cap leaves room for the threshold.)
C14_ApiTierEndsAtThreshold ==
    [][pc = "v_start" =>
          /\ vids' # <<>> => api_key
          /\ (pc' = "returned" /\ max_results >= min_videos)
                => Len(vids') >= min_videos]_vars

\* the videos of the API tier, which come first in vids
ApiPart == SelectSeq(vids, LAMBDA x : x.tier = "api")
JsonPart == SelectSeq(vids, LAMBDA x : x.tier = "json")

\* the entries of the embedded JSON before the first videoRenderer the field
\* access raises on
BeforeError ==
    LET bad == {i \in DOMAIN html.contents :
                   html.contents[i].kind = "video" /\ html.contents[i].shape = "bad"}
        first == IF bad = {} THEN Len(html.contents) + 1
                 ELSE CHOOSE i \in bad : \A k \in bad : i <= k
    IN  SubSeq(html.contents, 1, first - 1)

JsonIdsBeforeError ==
    LET good == SelectSeq(BeforeError,
                          LAMBDA it : it.kind = "video" /\ it.id # "None")
    IN  [i \in DOMAIN good |-> good[i].id]

\* C15: in src/app.py a parse error in the embedded-JSON tier never ends the
\* resolution: the entries collected before the error are kept (up to
\* max_results), and the regex tier still runs on the same page whenever
\* fewer than max_results videos are collected.
C15_JsonErrorFallsToRegex ==
    (variant = "app" /\ pc \in {"v_regex", "v_return"}) =>
        /\ html.script # "ok" => JsonPart = <<>>
        /\ html.script = "ok" =>
              [i \in DOMAIN JsonPart |-> JsonPart[i].id]
                  = Take(JsonIdsBeforeError, max_results - Len(ApiPart))
        /\ (pc = "v_return" /\ Len(vids) < max_results) =>
              \A m \in DOMAIN html.matches :
                  \E i \in DOMAIN vids : vids[i].id = html.matches[m]

\* the second videoRenderer of the page raised after the first was collected;
\* the first is kept and the regex tier added an id of its own
C15_Witness ==
    /\ variant = "app" /\ pc = "v_return"
    /\ Len(html.contents) = 2
    /\ html.contents[2].shape = "bad"
    /\ \E i \in DOMAIN vids : vids[i].tier = "json" /\ vids[i].id = html.contents[1].id
    /\ \E i \in DOMAIN vids : vids[i].tier = "regex"

-----------------------------------------------------------------------------
(* The topic normaliser on its own: one call on each topic of NormTopics,  *)
(* a prefix, a core and a suffix put together.                             *)

WordPython == <<"p","y","t","h","o","n">>

NormPrefixes == {<<>>, <<" ">>, <<"m","y"," ">>}
NormCores == {<<>>, WordPython, <<"P","y","t","h","o","n">>, <<"R","U","S","T">>,
              <<"t","r","u","s","t">>, <<"j","a","v","a">>, <<"g","o">>,
              <<"c","#">>, <<".","N","E","T">>, <<"m","a","t","h">>}
NormSuffixes == {<<>>, <<" ">>, <<" ">> \o WordProgramming,
                 <<" ","L","a","n","g","u","a","g","e">>,
                 <<"n","e","s","e">>, <<"l","a","n","g">>}

NormTopics == {p \o c \o x : p \in NormPrefixes, c \in NormCores, x \in NormSuffixes}

InitNorm ==
    /\ pc = "n_start"
    /\ topic \in NormTopics
    /\ max_results = 1
    /\ topic_for_apis = <<>>
    /\ calls = <<>>
    /\ outcome = <<>>
    /\ source_lists = <<>>
    /\ combined = <<>>
    /\ seen_titles = {}
    /\ examined = <<>>
    /\ pdfs = <<>>
    /\ InitIdleVideo
    /\ InitIdleWeb

NormalizeTopic ==
    /\ pc = "n_start"
    /\ topic_for_apis' = _normalize_topic_for_articles(topic)
    /\ pc' = "n_done"
    /\ UNCHANGED <<topic, max_results, calls, outcome, source_lists, combined,
                   seen_titles, examined, pdfs, videoVars, webVars>>

\* the normalised topic is handed to the normaliser again
NormalizeAgain ==
    /\ pc = "n_done"
    /\ topic' = topic_for_apis
    /\ topic_for_apis' = _normalize_topic_for_articles(topic_for_apis)
    /\ pc' = "n_again"
    /\ UNCHANGED <<max_results, calls, outcome, source_lists, combined,
                   seen_titles, examined, pdfs, videoVars, webVars>>

NextNorm == NormalizeTopic \/ NormalizeAgain

SpecNorm == InitNorm /\ [][NextNorm]_vars

\* C8: the normaliser maps "python" to "python programming language", returns
\* "python programming" unchanged and maps the whitespace-only "  " to "".
C8_NormalizerExamples ==
    pc = "n_done" =>
        /\ topic = WordPython => topic_for_apis = WordPython \o LangSuffix
        /\ topic = WordPython \o <<" ">> \o WordProgramming => topic_for_apis = topic
        /\ topic = <<" ", " ">> => topic_for_apis = <<>>

\* "python" has been normalised
C8_Witness ==
    /\ pc = "n_done"
    /\ topic = WordPython
    /\ topic_for_apis = <<"p","y","t","h","o","n"," ","p","r","o","g","r","a","m","m","i","n","g",
                          " ","l","a","n","g","u","a","g","e">>

\* C9 as stated: the suffix is appended exactly when the lower-cased topic is
\* one of lang_keywords and holds neither "programming" nor "language"; every
\* other topic is returned unchanged.
C9_MembershipElseUnchanged ==
    pc = "n_done" =>
        LET low == Lower(topic)
            member == /\ low \in lang_keywords
                      /\ ~Contains(WordProgramming, low)
                      /\ ~Contains(WordLanguage, low)
        IN  /\ member => topic_for_apis = topic \o LangSuffix
            /\ ~member => topic_for_apis = topic

\* C9, amended: the suffix is appended to the trimmed topic exactly when the
\* trimmed, lower-cased topic contains one of lang_keywords as a substring
\* and contains neither "programming" nor "language"; every other topic is
\* returned trimmed of leading and trailing whitespace, otherwise unchanged.
C9_SubstringElseTrimmed ==
    pc = "n_done" =>
        LET t == Strip(topic)
            low == Lower(t)
            matched == /\ \E k \in lang_keywords : Contains(k, low)
                       /\ ~Contains(WordProgramming, low)
                       /\ ~Contains(WordLanguage, low)
        IN  /\ matched => topic_for_apis = t \o LangSuffix
            /\ ~matched => topic_for_apis = t
            /\ topic_for_apis \in {t, t \o LangSuffix}

\* a topic with surrounding whitespace that only contains a keyword got the
\* suffix
C9_Witness ==
    /\ pc = "n_done"
    /\ topic # Strip(topic)
    /\ Lower(Strip(topic)) \notin lang_keywords
    /\ topic_for_apis = Strip(topic) \o LangSuffix

\* C24: the normaliser is idempotent: normalising a normalised topic gives
\* it back, so the suffix " programming language" is never appended twice.
C24_NormalizerIdempotent ==
    pc = "n_again" => topic_for_apis = topic

\* a topic that got the suffix at the first call came back unchanged from the
\* second
C24_Witness ==
    /\ pc = "n_again"
    /\ Contains(LangSuffix, topic)
    /\ topic_for_apis = topic

-----------------------------------------------------------------------------
(* The article adapters on their own, with the authors of the records: one *)
(* call of one adapter on one provider answer.  search_openalex is the     *)
(* adapter of src/EduEvo/app.py.                                           *)

\* a provider record lists at most MaxAuthors authors
MaxAuthors == 5
\* a provider answer of this part holds at most MaxAdapterItems records
MaxAdapterItems == 2

AuthorLists ==
    {[i \in 1 .. n |-> [name |-> i]] : n \in 0 .. MaxAuthors}
        \cup {<<[name |-> 0], [name |-> 1]>>}

AdapterTitles == {StrTitle(<<"a">>), StrTitle(<<>>), NoTitle}

AuthoredRecords(noPdf) ==
    {[shape |-> "ok", title |-> t, pdf |-> noPdf, authors |-> a] :
        t \in AdapterTitles, a \in AuthorLists}
        \cup {[shape |-> "bad", title |-> NoTitle, pdf |-> noPdf, authors |-> <<>>]}

AuthoredAnswers(noPdf) ==
    [fault : Faults, items : {<<>>}]
        \cup [fault : {"none"},
              items : SeqsUpTo(AuthoredRecords(noPdf), MaxAdapterItems)]

\* src/EduEvo/app.py 57-65: every item is appended, whatever its title
OpenAlexRecords(items) ==
    [i \in DOMAIN items |->
        [title |-> items[i].title, pdf |-> items[i].pdf,
         authors |-> Take(items[i].authors, AuthorLimit)]]

\* random.shuffle(out): the orders the list may be returned in
Shuffles(list) ==
    LET n == Len(list)
        perms == {f \in [1 .. n -> 1 .. n] : \A i, j \in 1 .. n : f[i] = f[j] => i = j}
    IN  {[i \in 1 .. n |-> list[f[i]]] : f \in perms}

\* src/EduEvo/app.py 50-69
search_openalex(ans) ==
    IF AdapterOutcome(ans) # "ok" THEN {<<>>}
    ELSE Shuffles(OpenAlexRecords(ans.items))

InitAdapters ==
    /\ pc = "a_start"
    /\ topic \in GatherTopics
    /\ max_results \in 1 .. MaxN
    /\ topic_for_apis = topic
    /\ calls = <<>>
    /\ outcome = <<>>
    /\ source_lists = <<>>
    /\ combined = <<>>
    /\ seen_titles = {}
    /\ examined = <<>>
    /\ pdfs = <<>>
    /\ InitIdleVideo
    /\ InitIdleWeb

AdapterSemanticScholar ==
    /\ pc = "a_start"
    /\ \E ans \in AuthoredAnswers("None") :
          CallAdapter("Semantic Scholar", max_results,
                      search_semantic_scholar(ans), ans, "a_returned")

AdapterCrossref ==
    /\ pc = "a_start"
    /\ \E ans \in AuthoredAnswers("") :
          CallAdapter("Crossref", max_results, search_crossref(ans), ans, "a_returned")

AdapterArxiv ==
    /\ pc = "a_start"
    /\ \E ans \in AuthoredAnswers("") :
          CallAdapter("arXiv", max_results, search_arxiv(ans), ans, "a_returned")

AdapterOpenAlex ==
    /\ pc = "a_start"
    /\ \E ans \in AuthoredAnswers("None") :
          \E list \in search_openalex(ans) :
              CallAdapter("OpenAlex", max_results, list, ans, "a_returned")

NextAdapters ==
    AdapterSemanticScholar \/ AdapterCrossref \/ AdapterArxiv \/ AdapterOpenAlex

SpecAdapters == InitAdapters /\ [][NextAdapters]_vars

\* the list the adapter returned
Returned1 == source_lists[1]

\* C16: every record returned by an article adapter (Semantic Scholar,
\* Crossref, arXiv) carries at most AuthorLimit authors.
C16_AtMostFourAuthors ==
    (pc = "a_returned" /\ calls[1].adapter \in {"Semantic Scholar", "Crossref", "arXiv"})
        => \A i \in DOMAIN Returned1 : Len(Returned1[i].authors) <= AuthorLimit

\* C17: no record returned by search_semantic_scholar, search_crossref,
\* search_arxiv or search_openalex has a missing (None) or empty title.
C17_NoRecordWithoutTitle ==
    pc = "a_returned"
        => \A i \in DOMAIN Returned1 :
              /\ Returned1[i].title.kind # "none"
              /\ Returned1[i].title # StrTitle(<<>>)

-----------------------------------------------------------------------------
(* The web application of src/app.py: the users and profiles tables, the   *)
(* browser sessions and the request handlers.  One action is one request   *)
(* handled from start to end.  An absent session key or table row is the   *)
(* empty sequence <<>>, a present one the one-element sequence <<value>>.  *)

BASIC_QUIZ_LIMIT == 2

Plans == {"free", "basic", "plus", "max"}
\* e-mails posted to /register and /login: two spellings of one address, a
\* second address and a blank one
PostedEmails == {<<"a">>, <<" ","A">>, <<"b">>, <<" ">>}
SessionIds == {"s1"}

\* the quiz_history table holds at most MaxHistoryRows rows
MaxHistoryRows == 1
\* a session generates at most MaxQuizzes quizzes under the basic plan
MaxQuizzes == 3

\* topics posted to /api/search: one the normaliser extends, one it leaves
\* alone, one that is blank
SearchTopics == {<<" ","r","u","s","t"," ","x">>, <<"a","b">>, <<" ">>}

appVars == <<pc, topic, max_results, gatherVars, videoVars>>

Get(opt, default) == IF opt = <<>> THEN default ELSE opt[1]

EmptySession == [auth_user |-> <<>>, user_details |-> <<>>, basic_quiz_uses |-> <<>>]

\* "auth_user" not in session
NotLoggedIn(sess) == sess.auth_user = <<>>

\* SELECT ... FROM users u LEFT JOIN profiles p ... IFNULL(p.plan, 'free'):
\* the plan of the user's profile, <<>> when there is no such user
fetch_profile(users, profiles, u) ==
    IF u \notin DOMAIN users THEN <<>>
    ELSE IF u \in DOMAIN profiles THEN <<profiles[u]>>
    ELSE <<"free">>

\* session["user_details"] = profile, or the key popped
sync_session_profile(sess, users, profiles, u) ==
    [sess EXCEPT !.user_details = fetch_profile(users, profiles, u)]

Status(code) == [status |-> code]

Reply(endpoint, s, t, resp, out) ==
    /\ request' = [endpoint |-> endpoint, sid |-> s, topic |-> t]
    /\ response' = resp
    /\ outbound' = out

InitWeb ==
    /\ pc = "serving"
    /\ topic = <<>>
    /\ max_results = 1
    /\ topic_for_apis = <<>>
    /\ calls = <<>>
    /\ outcome = <<>>
    /\ source_lists = <<>>
    /\ combined = <<>>
    /\ seen_titles = {}
    /\ examined = <<>>
    /\ pdfs = <<>>
    /\ InitIdleVideo
    /\ db_users = <<>>
    /\ db_profiles = <<>>
    /\ db_quiz_history = 0
    /\ session = [s \in SessionIds |-> EmptySession]
    /\ request = NoRequest
    /\ response = NoResponse
    /\ outbound = <<>>
    /\ basic_generated = [s \in SessionIds |-> 0]

\* the ids of the users rows with this e-mail
UsersWithEmail(users, email) == {u \in DOMAIN users : users[u] = email}

\* INSERT INTO profiles (user_id, class, interests) ... ON CONFLICT(user_id)
\* DO UPDATE SET class, interests: a new row gets the column default 'free'
upsert_profile(profiles, u) ==
    IF u \in DOMAIN profiles THEN profiles
    ELSE [x \in (DOMAIN profiles) \cup {u} |-> IF x = u THEN "free" ELSE profiles[x]]

\* The users table takes a second row with an e-mail it already holds.
EmailTakenNever(users, email) == FALSE

\* the UNIQUE constraint of users.email (line 475) rejects the INSERT
EmailTaken(users, email) == UsersWithEmail(users, email) # {}

\* lines 622-651; complete: a name and a password were posted
Register ==
    \E s \in DOMAIN session, raw \in PostedEmails, complete \in BOOLEAN :
        LET email == Lower(Strip(raw))
            user_id == Len(db_users) + 1
        IN  IF ~complete \/ email = <<>> \/ EmailTaken(db_users, email)
            THEN /\ Reply("/register", s, raw, Status(400), <<>>)
                 /\ UNCHANGED <<dbVars, session, basic_generated, appVars>>
            ELSE /\ db_users' = Append(db_users, email)
                 /\ db_profiles' = upsert_profile(db_profiles, user_id)
                 /\ session' = [session EXCEPT ![s].auth_user = <<user_id>>,
                                               ![s].user_details = <<"free">>]
                 /\ Reply("/register", s, raw, Status(200), <<>>)
                 /\ UNCHANGED <<db_quiz_history, basic_generated, appVars>>

\* lines 654-674
Login ==
    \E s \in DOMAIN session, raw \in PostedEmails,
       password \in {"", "wrong", "right"} :
        LET email == Lower(Strip(raw))
            row == UsersWithEmail(db_users, email)
        IN  /\ IF email = <<>> \/ password = ""
               THEN /\ Reply("/login", s, <<>>, Status(400), <<>>)
                    /\ session' = session
               ELSE IF row = {} \/ password # "right"
               THEN /\ Reply("/login", s, <<>>, Status(401), <<>>)
                    /\ session' = session
               ELSE LET u == CHOOSE x \in row : TRUE
                    IN  /\ Reply("/login", s, <<>>, Status(200), <<>>)
                        /\ session' = [session EXCEPT ![s] =
                              sync_session_profile([@ EXCEPT !.auth_user = <<u>>],
                                                   db_users, db_profiles, u)]
            /\ UNCHANGED <<dbVars, basic_generated, appVars>>

\* lines 677-681
Logout ==
    \E s \in DOMAIN session :
        /\ Reply("/logout", s, <<>>, Status(200), <<>>)
        /\ session' = [session EXCEPT ![s].auth_user = <<>>,
                                      ![s].user_details = <<>>]
        /\ UNCHANGED <<dbVars, basic_generated, appVars>>

\* topic.replace(' ', '+')
Replace(str, a, b) == [i \in DOMAIN str |-> IF str[i] = a THEN b ELSE str[i]]

GoogleSearch == "https://www.google.com/search?q="

\* The response carries the topic the article adapters are queried with.
api_search_response_normalized(t) ==
    [status |-> 200,
     topic |-> _normalize_topic_for_articles(t),
     web_search_link |-> <<GoogleSearch, Replace(t, " ", "+"), "">>,
     pdf_search_link |-> <<GoogleSearch, Replace(t, " ", "+"), "+filetype:pdf">>]

\* lines 696-706
api_search_response(t) ==
    [status |-> 200,
     topic |-> t,
     web_search_link |-> <<GoogleSearch, Replace(t, " ", "+"), "">>,
     pdf_search_link |-> <<GoogleSearch, Replace(t, " ", "+"), "+filetype:pdf">>]

\* lines 693-694: the requests of search_youtube_links(topic), whose API
\* tier is off (YOUTUBE_API_KEY = None, line 18), and of
\* gather_article_sources(topic)
api_search_calls(t) ==
    <<[service |-> "YouTube", query |-> t]>>
        \o [i \in 1 .. 3 |-> [service |-> AdapterOrder[i],
                              query |-> _normalize_topic_for_articles(t)]]

\* lines 684-706
ApiSearch ==
    \E s \in DOMAIN session, raw \in SearchTopics :
        /\ IF NotLoggedIn(session[s])
           THEN Reply("/api/search", s, raw, Status(401), <<>>)
           ELSE IF Strip(raw) = <<>>
           THEN Reply("/api/search", s, raw, Status(400), <<>>)
           ELSE Reply("/api/search", s, raw, api_search_response(Strip(raw)),
                      api_search_calls(Strip(raw)))
        /\ UNCHANGED <<dbVars, session, basic_generated, appVars>>

GeminiCall == [service |-> "Gemini", query |-> <<>>]
NewsCall == [service |-> "news feeds", query |-> <<>>]

\* The handler answers without looking at the session.
ApiChatNoGate ==
    \E s \in DOMAIN session, msg \in BOOLEAN :
        /\ IF ~msg
           THEN Reply("/api/chat", s, <<>>, Status(400), <<>>)
           ELSE Reply("/api/chat", s, <<>>, Status(200), <<GeminiCall>>)
        /\ UNCHANGED <<dbVars, session, basic_generated, appVars>>

\* lines 709-720; msg: the message is not blank
ApiChat ==
    \E s \in DOMAIN session, msg \in BOOLEAN :
        /\ IF NotLoggedIn(session[s])
           THEN Reply("/api/chat", s, <<>>, Status(401), <<>>)
           ELSE IF ~msg
           THEN Reply("/api/chat", s, <<>>, Status(400), <<>>)
           ELSE Reply("/api/chat", s, <<>>, Status(200), <<GeminiCall>>)
        /\ UNCHANGED <<dbVars, session, basic_generated, appVars>>

\* lines 723-740
ApiNews ==
    \E s \in DOMAIN session :
        /\ IF NotLoggedIn(session[s])
           THEN Reply("/api/news", s, <<>>, Status(401), <<>>)
           ELSE IF fetch_profile(db_users, db_profiles, session[s].auth_user[1]) = <<>>
           THEN Reply("/api/news", s, <<>>, Status(404), <<>>)
           ELSE Reply("/api/news", s, <<>>, Status(200), <<NewsCall>>)
        /\ UNCHANGED <<dbVars, session, basic_generated, appVars>>

\* the profiles table once the user's row holds the plan (UPDATE, or INSERT
\* when the user has no row)
WithPlan(profiles, u, plan) ==
    [x \in (DOMAIN profiles) \cup {u} |-> IF x = u THEN plan ELSE profiles[x]]

\* lines 764-821
SetPlan ==
    \E s \in DOMAIN session, plan \in Plans \cup {"gold"} :
        IF NotLoggedIn(session[s])
        THEN /\ Reply("/api/set-plan", s, <<>>, Status(401), <<>>)
             /\ UNCHANGED <<dbVars, session, basic_generated, appVars>>
        ELSE IF plan \notin Plans
        THEN /\ Reply("/api/set-plan", s, <<>>, Status(400), <<>>)
             /\ UNCHANGED <<dbVars, session, basic_generated, appVars>>
        ELSE LET u == session[s].auth_user[1]
                 profiles == WithPlan(db_profiles, u, plan)
             IN  /\ db_profiles' = profiles
                 /\ session' = [session EXCEPT ![s] =
                       sync_session_profile(@, db_users, profiles, u)]
                 /\ Reply("/api/set-plan", s, <<>>, Status(200), <<>>)
                 /\ UNCHANGED <<db_users, db_quiz_history, basic_generated, appVars>>

\* session.get("basic_quiz_uses", 0) >= BASIC_QUIZ_LIMIT
QuizLimitReached(sess) == Get(sess.basic_quiz_uses, 0) >= BASIC_QUIZ_LIMIT

\* lines 824-963; has_topic: the topic is not blank; parsed: the model's
\* reply was parsed into a list of questions
GenerateQuiz ==
    \E s \in DOMAIN session, has_topic \in BOOLEAN, parsed \in BOOLEAN :
        LET sess == session[s]
            profile == fetch_profile(db_users, db_profiles, Get(sess.auth_user, 0))
            plan == Get(profile, "free")
        IN  IF NotLoggedIn(sess)
            THEN /\ Reply("/api/generate-quiz", s, <<>>, Status(401), <<>>)
                 /\ UNCHANGED <<dbVars, session, basic_generated, appVars>>
            ELSE IF ~has_topic
            THEN /\ Reply("/api/generate-quiz", s, <<>>, Status(400), <<>>)
                 /\ UNCHANGED <<dbVars, session, basic_generated, appVars>>
            ELSE IF profile = <<>>
            THEN /\ Reply("/api/generate-quiz", s, <<>>, Status(404), <<>>)
                 /\ UNCHANGED <<dbVars, session, basic_generated, appVars>>
            ELSE IF plan = "free" \/ (plan = "basic" /\ QuizLimitReached(sess))
            THEN /\ Reply("/api/generate-quiz", s, <<>>, Status(403), <<>>)
                 /\ UNCHANGED <<dbVars, session, basic_generated, appVars>>
            ELSE LET entered == IF plan = "basic" THEN sess
                                ELSE [sess EXCEPT !.basic_quiz_uses = <<>>]
                     counted == [entered EXCEPT !.basic_quiz_uses =
                                    <<Get(entered.basic_quiz_uses, 0) + 1>>]
                 IN  /\ (parsed /\ plan = "basic") => basic_generated[s] < MaxQuizzes
                     /\ IF parsed
                        THEN /\ Reply("/api/generate-quiz", s, <<>>, Status(200), <<GeminiCall>>)
                             /\ session' = [session EXCEPT ![s] =
                                   IF plan = "basic" THEN counted ELSE entered]
                             /\ basic_generated' = [basic_generated EXCEPT ![s] =
                                   IF plan = "basic" THEN @ + 1 ELSE @]
                        ELSE /\ Reply("/api/generate-quiz", s, <<>>, Status(500), <<GeminiCall>>)
                             /\ session' = [session EXCEPT ![s] = entered]
                             /\ basic_generated' = basic_generated
                     /\ UNCHANGED <<dbVars, appVars>>

\* lines 966-1017; valid: a topic and one answer were posted
SubmitQuiz ==
    \E s \in DOMAIN session, valid \in BOOLEAN :
        IF NotLoggedIn(session[s])
        THEN /\ Reply("/api/submit-quiz", s, <<>>, Status(401), <<>>)
             /\ UNCHANGED <<dbVars, session, basic_generated, appVars>>
        ELSE IF ~valid
        THEN /\ Reply("/api/submit-quiz", s, <<>>, Status(400), <<>>)
             /\ UNCHANGED <<dbVars, session, basic_generated, appVars>>
        ELSE /\ db_quiz_history < MaxHistoryRows
             /\ db_quiz_history' = db_quiz_history + 1
             /\ Reply("/api/submit-quiz", s, <<>>, Status(200), <<>>)
             /\ UNCHANGED <<db_users, db_profiles, session, basic_generated, appVars>>

\* lines 1020-1060; answered: the model was reached for every answer
QuizSolutions ==
    \E s \in DOMAIN session, has_answers \in BOOLEAN, answered \in BOOLEAN :
        /\ IF NotLoggedIn(session[s])
           THEN Reply("/api/quiz-solutions", s, <<>>, Status(401), <<>>)
           ELSE IF ~has_answers
           THEN Reply("/api/quiz-solutions", s, <<>>, Status(400), <<>>)
           ELSE Reply("/api/quiz-solutions", s, <<>>,
                      Status(IF answered THEN 200 ELSE 500), <<GeminiCall>>)
        /\ UNCHANGED <<dbVars, session, basic_generated, appVars>>

\* the answer of /app and /api/session-plan, with the plan it was built for
PlanReply(code, plan) == [status |-> code, plan |-> plan]

\* lines 574-589: without auth_user a redirect to the login page; the
\* template is chosen by the plan of session["user_details"], fetched from
\* the database only when the session holds none
Dashboard ==
    \E s \in DOMAIN session :
        LET sess == session[s]
            synced == IF sess.user_details = <<>>
                      THEN sync_session_profile(sess, db_users, db_profiles,
                                                Get(sess.auth_user, 0))
                      ELSE sess
        IN  /\ IF NotLoggedIn(sess)
               THEN /\ Reply("/app", s, <<>>, Status(302), <<>>)
                    /\ session' = session
               ELSE /\ session' = [session EXCEPT ![s] = synced]
                    /\ IF synced.user_details = <<>>
                       THEN Reply("/app", s, <<>>, Status(500), <<>>)
                       ELSE Reply("/app", s, <<>>,
                                  PlanReply(200, synced.user_details[1]), <<>>)
            /\ UNCHANGED <<dbVars, basic_generated, appVars>>

\* lines 750-761
SessionPlan ==
    \E s \in DOMAIN session :
        LET sess == session[s]
            synced == IF ~NotLoggedIn(sess) /\ sess.user_details = <<>>
                      THEN sync_session_profile(sess, db_users, db_profiles,
                                                sess.auth_user[1])
                      ELSE sess
        IN  /\ session' = [session EXCEPT ![s] = synced]
            /\ Reply("/api/session-plan", s, <<>>,
                     PlanReply(200, IF NotLoggedIn(sess) THEN "free"
                                    ELSE Get(synced.user_details, "free")), <<>>)
            /\ UNCHANGED <<dbVars, basic_generated, appVars>>

NextWeb ==
    \/ Dashboard \/ SessionPlan
    \/ Register \/ Login \/ Logout \/ ApiSearch \/ ApiChat \/ ApiNews
    \/ SetPlan \/ GenerateQuiz \/ SubmitQuiz \/ QuizSolutions

SpecWeb == InitWeb /\ [][NextWeb]_vars

ArticleServices == {AdapterOrder[i] : i \in DOMAIN AdapterOrder}

\* C18: the normalized topic is only the query of the article adapters: a
\* successful /api/search answers with the caller's trimmed topic, queries the
\* video resolver with it and builds both search links from it, and the
\* request leaves the session and the database as they were.
C18_NormalizedTopicOnlyForAdapters ==
    [][(request'.endpoint = "/api/search" /\ response'.status = 200) =>
          LET t == Strip(request'.topic)
          IN  /\ response'.topic = t
              /\ response'.web_search_link[2] = Replace(t, " ", "+")
              /\ response'.pdf_search_link[2] = Replace(t, " ", "+")
              /\ \A i \in DOMAIN outbound' :
                    outbound'[i].query =
                        IF outbound'[i].service \in ArticleServices
                        THEN _normalize_topic_for_articles(t) ELSE t
              /\ \E i \in DOMAIN outbound' : outbound'[i].service = "YouTube"
              /\ session' = session
              /\ dbVars' = dbVars]_vars

\* a search whose topic the caller padded and the normaliser extends
C18_Witness ==
    /\ request.endpoint = "/api/search" /\ response.status = 200
    /\ Strip(request.topic) # request.topic
    /\ _normalize_topic_for_articles(Strip(request.topic)) # Strip(request.topic)
    /\ \E i \in DOMAIN outbound :
          /\ outbound[i].service = "Crossref"
          /\ outbound[i].query # response.topic

\* C19: over the requests of one browser session, the number of quizzes
\* generated while the user's stored plan is "basic" never exceeds
\* BASIC_QUIZ_LIMIT, and the session's counter never runs ahead of that
\* number (a failed generation consumes no quota).
C19_BasicQuizQuota ==
    \A s \in DOMAIN session :
        /\ basic_generated[s] <= BASIC_QUIZ_LIMIT
        /\ Get(session[s].basic_quiz_uses, 0) <= basic_generated[s]

GatedEndpoints == {"/api/search", "/api/chat", "/api/news", "/api/set-plan",
                   "/api/generate-quiz", "/api/submit-quiz", "/api/quiz-solutions"}

\* C20: a request to a gated endpoint from a session without auth_user is
\* answered 401, and handling it writes nothing to the database, changes
\* nothing in the session and makes no outbound call.
C20_AuthenticationGate ==
    [][(request'.endpoint \in GatedEndpoints /\ NotLoggedIn(session[request'.sid])) =>
          /\ response'.status = 401
          /\ outbound' = <<>>
          /\ session' = session
          /\ dbVars' = dbVars
          /\ basic_generated' = basic_generated]_vars

\* a logged-out session that still holds a quiz counter was refused
C20_Witness ==
    /\ request.endpoint \in GatedEndpoints
    /\ response.status = 401
    /\ NotLoggedIn(session[request.sid])
    /\ session[request.sid].basic_quiz_uses # <<>>

\* C22: after /logout the session holds nothing of the logged-out user:
\* auth_user, user_details and basic_quiz_uses are all absent, so whoever
\* logs in next in this browser starts with a fresh quiz quota.
C22_LogoutClearsSession ==
    request.endpoint = "/logout" => session[request.sid] = EmptySession

\* no two users rows hold the same e-mail, and every stored e-mail is trimmed
\* and lower-cased
EmailsUnique(users) ==
    /\ \A u, v \in DOMAIN users : users[u] = users[v] => u = v
    /\ \A u \in DOMAIN users : Lower(Strip(users[u])) = users[u]

\* C23: registration is all-or-nothing and keeps e-mails unique: no two
\* users rows share a trimmed, lower-cased e-mail; a /register with a
\* registered e-mail answers 400, inserts no users or profiles row and leaves
\* the session as it was; a successful /register adds exactly one users row
\* and one profiles row with plan 'free'.
C23_RegistrationAllOrNothing ==
    [][/\ EmailsUnique(db_users')
       /\ request'.endpoint = "/register" =>
             LET email == Lower(Strip(request'.topic))
                 user_id == Len(db_users) + 1
             IN  /\ response'.status \in {200, 400}
                 /\ (\E u \in DOMAIN db_users : db_users[u] = email)
                       => response'.status = 400
                 /\ response'.status = 400 =>
                       dbVars' = dbVars /\ session' = session
                 /\ response'.status = 200 =>
                       /\ db_users' = Append(db_users, email)
                       /\ DOMAIN db_profiles' = (DOMAIN db_profiles) \cup {user_id}
                       /\ user_id \notin DOMAIN db_profiles
                       /\ db_profiles'[user_id] = "free"
                       /\ \A u \in DOMAIN db_profiles : db_profiles'[u] = db_profiles[u]
                       /\ db_quiz_history' = db_quiz_history]_vars

\* with two users registered, a /register with another spelling of the first
\* user's e-mail was refused
C23_Witness ==
    /\ request.endpoint = "/register"
    /\ response.status = 400
    /\ Len(db_users) = 2
    /\ request.topic # db_users[1]
    /\ Lower(Strip(request.topic)) = db_users[1]

-----------------------------------------------------------------------------
(* Two browser sessions on one database: the handlers that read or write   *)
(* the plan (registration, login, logout, /api/set-plan, /app and          *)
(* /api/session-plan).                                                     *)

TwoSessions == {"s1", "s2"}

InitSessions ==
    /\ pc = "serving"
    /\ topic = <<>>
    /\ max_results = 1
    /\ topic_for_apis = <<>>
    /\ calls = <<>>
    /\ outcome = <<>>
    /\ source_lists = <<>>
    /\ combined = <<>>
    /\ seen_titles = {}
    /\ examined = <<>>
    /\ pdfs = <<>>
    /\ InitIdleVideo
    /\ db_users = <<>>
    /\ db_profiles = <<>>
    /\ db_quiz_history = 0
    /\ session = [s \in TwoSessions |-> EmptySession]
    /\ request = NoRequest
    /\ response = NoResponse
    /\ outbound = <<>>
    /\ basic_generated = [s \in TwoSessions |-> 0]

NextSessions ==
    Register \/ Login \/ Logout \/ SetPlan \/ Dashboard \/ SessionPlan

SpecSessions == InitSessions /\ [][NextSessions]_vars

\* the plan stored for the user a session is logged in as
StoredPlan(s) ==
    fetch_profile(db_users, db_profiles, session[s].auth_user[1])

\* C21: in every state, a session that holds user_details for its logged-in
\* user caches the plan stored for that user in the profiles table, also
\* after the user changed plan from another session, so /app and
\* /api/session-plan never answer for a stale plan.
C21_CachedPlanIsStoredPlan ==
    /\ \A s \in DOMAIN session :
          (~NotLoggedIn(session[s]) /\ session[s].user_details # <<>>)
              => session[s].user_details = StoredPlan(s)
    /\ (/\ request.endpoint \in {"/app", "/api/session-plan"}
        /\ response.status = 200
        /\ ~NotLoggedIn(session[request.sid]))
           => <<response.plan>> = StoredPlan(request.sid)

=============================================================================
